---- MODULE Spec2Model ----
(***************************************************************************)
(* Model of the EGS client SDK: the Core API client (URL parsing, token    *)
(* exchange, invoke_sdk_operation), authenticate, the process-wide default *)
(* session slot and the resource functions' session resolution and status  *)
(* dispatch.  An HTTP round trip is two steps: the request is recorded     *)
(* when it is sent and the caller blocks until the server's reply, which   *)
(* is an input chosen from a small set of responses.                       *)
(***************************************************************************)
EXTENDS Integers, Sequences, FiniteSets, TLC

VARIABLES
    clients,         \* every EgsCoreApisClient constructed so far, in order
    sessions,        \* every AuthenticatedSession constructed so far, in order
    global_session,  \* egs._authenticated_session: a session number, 0 for None
    call,            \* per thread: the public operation in progress
    reqs,            \* per thread: the HTTP requests of its current or latest operation
    last,            \* per thread: outcome of its latest finished operation
    built,           \* history: every client as its constructor left it
    nops,            \* public operations started so far
    conns,           \* per thread: the HTTP connections it opened (SpecConn only)
    server           \* the workspace ws1 as the API server holds it (SpecDetach only)

vars == <<clients, sessions, global_session, call, reqs, last, built, nops, conns,
          server>>

(* ------------------------------ bounds -------------------------------- *)
\* number of public operations (authenticate, constructors, resource calls) in a run
MaxCalls == 3
\* caller threads; the sequential specification runs the main thread only
Threads == {"main", "second"}

(* --------------------------- Python values ---------------------------- *)
None == "None"
NoExc == "NoExc"

\* Python truthiness of an Optional[str]
Truthy(x) == x # None /\ x # ""

(* ------------------------------- inputs ------------------------------- *)
\* endpoint strings, as sequences of lexical pieces; <<None>> is Python None
NoneUrl == <<None>>
Endpoints ==
    { NoneUrl,
      <<>>,
      <<"h">>,
      <<"http", "://", "h">>,
      <<"https", "://", "h", ":", "8443", "/", "p">> }

\* the endpoints callers of authenticate use: one well-formed URL and the bad ones
SdkEndpoints == Endpoints \ { <<"http", "://", "h">> }

ApiKeys == {None, "", "k1"}
AccessTokens == {None, "", "tA"}
\* tokens the auth endpoint hands out; None stands for a null data field
IssuedTokens == {"t1", "t2"}

ExpiredMessage == "Api Key has expired"
Messages == {ExpiredMessage, "other"}

Statuses == {200, 400, 401, 403, 404, 409, 418, 422, 500, 503}

\* bodies: not JSON at all, the JSON object {}, or a full envelope
Bodies == {"notjson", "empty", "envelope"}

\* the statuses the auth endpoint and the API also send with a body that is
\* not an envelope
UnreadableAuthStatuses == {200, 400, 401}
UnreadableStatuses == {200, 401, 403}

\* statuses that are also answered with an envelope naming another status
MismatchedStatuses == {200, 404}

\* a status the body may carry that differs from the HTTP status
OtherStatus(s) == IF s = 200 THEN 500 ELSE 200

\* replies of the auth endpoint (the body's statusCode is never read there)
AuthResponses ==
    { [status |-> s, body |-> b, statusCode |-> s, message |-> "other",
       token |-> None] : s \in UnreadableAuthStatuses, b \in Bodies \ {"envelope"} }
    \cup
    { [status |-> s, body |-> "envelope", statusCode |-> s, message |-> "other",
       token |-> None] : s \in Statuses \ {200, 401} }
    \cup
    { [status |-> 401, body |-> "envelope", statusCode |-> 401, message |-> m,
       token |-> None] : m \in Messages }
    \cup
    { [status |-> 200, body |-> "envelope", statusCode |-> 200, message |-> "other",
       token |-> k] : k \in IssuedTokens \cup {None} }

\* the workspace name in the data of a reply that reports success
ServerWorkspaceName == "wsS"

\* the data field of an envelope: the operation's payload with statusCode 200,
\* null otherwise
DataOf(statusCode) == IF statusCode = 200 THEN ServerWorkspaceName ELSE None

\* replies to a resource request
ResourceResponses ==
    { [status |-> s, body |-> b, statusCode |-> s, message |-> "other",
       token |-> None, data |-> None] :
         s \in UnreadableStatuses, b \in Bodies \ {"envelope"} }
    \cup
    { [status |-> s, body |-> "envelope", statusCode |-> s,
       message |-> "other", token |-> None, data |-> DataOf(s)] : s \in Statuses }
    \cup
    { [status |-> s, body |-> "envelope", statusCode |-> OtherStatus(s),
       message |-> "other", token |-> None, data |-> DataOf(OtherStatus(s))] :
         s \in MismatchedStatuses }

\* cluster and namespace lists, as sets of names; {None} is Python None
NoneList == {None}
ClusterNames == {"c1", "c2"}
NamespaceNames == {"n1"}

\* the workspace asked for, as a successful listing shows it; found is FALSE
\* when the listing does not hold it
NoListing == [found |-> FALSE, clusters |-> {}, namespaces |-> {}]
Listings ==
    { NoListing } \cup
    { [found |-> TRUE, clusters |-> cs, namespaces |-> NamespaceNames] :
        cs \in (SUBSET ClusterNames) \ {{}} } \cup
    { [found |-> TRUE, clusters |-> ClusterNames, namespaces |-> {}] }

\* a request that was not answered with a listing
Unlisted == [found |-> FALSE, clusters |-> NoneList, namespaces |-> NoneList]

\* the clusters and namespaces of a request that is not an update
NoPut == [clusters |-> NoneList, namespaces |-> NoneList]

(* ------------------------ EgsCoreApisClient --------------------------- *)
\* str.index('://'): position of the first separator, 0 when absent
IndexOf(s, piece) ==
    IF \E i \in 1..Len(s) : s[i] = piece
    THEN CHOOSE i \in 1..Len(s) : s[i] = piece /\ \A j \in 1..(i-1) : s[j] # piece
    ELSE 0

\* int(): value of a port string, -1 when int() raises ValueError
IntOf(s) ==
    IF s = <<"8443">> THEN 8443
    ELSE IF s = <<"80">> THEN 80
    ELSE -1

\* the part of s before the first piece (all of s when absent): split(piece)[0]
Before(s, piece) ==
    IF IndexOf(s, piece) = 0 THEN s ELSE SubSeq(s, 1, IndexOf(s, piece) - 1)

\* the part of s after the first piece
After(s, piece) == SubSeq(s, IndexOf(s, piece) + 1, Len(s))

\* split(':')[1]: the part between the first and the second ':'
SecondField(s, piece) == Before(After(s, piece), piece)

\* EgsCoreApisClient.__init__
EgsCoreApisClient_init(server_url, api_key, access_token) ==
    IF api_key = None /\ access_token = None
    THEN [exc |-> "ValueError", client |-> None]
    ELSE IF server_url = NoneUrl
    THEN [exc |-> "AttributeError", client |-> None]
    ELSE IF IndexOf(server_url, "://") = 0
    THEN [exc |-> "ValueError", client |-> None]
    ELSE
      LET scheme   == Before(server_url, "://")
          rest     == After(server_url, "://")
          hostpart == Before(rest, "/")
          prefix   == IF IndexOf(rest, "/") = 0 \/ After(rest, "/") = <<>>
                      THEN <<>>
                      ELSE <<"/">> \o After(rest, "/")
          hasport  == IndexOf(hostpart, ":") # 0
          port     == IF hasport THEN IntOf(SecondField(hostpart, ":"))
                      ELSE IF scheme = <<"http">> THEN 80 ELSE 443
      IN IF hasport /\ port = -1
         THEN [exc |-> "ValueError", client |-> None]
         ELSE [exc |-> NoExc,
               client |-> [api_key |-> api_key, access_token |-> access_token,
                           scheme |-> scheme, server_host |-> Before(hostpart, ":"),
                           server_port |-> port, prefix |-> prefix]]

\* new_egs_core_apis_client
new_egs_core_apis_client(server_url, api_key, access_token) ==
    IF api_key = None /\ access_token = None
    THEN [exc |-> "ValueError", client |-> None]
    ELSE EgsCoreApisClient_init(server_url, api_key, access_token)

\* variant: every 401 is reported as an unknown key
exchange_api_key_for_access_token_NoExpiry(resp) ==
    IF resp.body = "notjson" THEN [exc |-> "JSONDecodeError", token |-> None]
    ELSE IF resp.status = 400 THEN [exc |-> "ApiKeyInvalid", token |-> None]
    ELSE IF resp.status = 401 THEN [exc |-> "ApiKeyNotFound", token |-> None]
    ELSE IF resp.status # 200 THEN [exc |-> "ServerUnreachable", token |-> None]
    ELSE IF resp.body = "empty" THEN [exc |-> "KeyError", token |-> None]
    ELSE IF resp.token = None THEN [exc |-> "TypeError", token |-> None]
    ELSE [exc |-> NoExc, token |-> resp.token]

\* variant: the exchange reads the token without looking at the HTTP status
exchange_api_key_for_access_token_Unchecked(resp) ==
    IF resp.body = "notjson" THEN [exc |-> "JSONDecodeError", token |-> None]
    ELSE IF resp.body = "empty" THEN [exc |-> "KeyError", token |-> None]
    ELSE IF resp.token = None THEN [exc |-> "TypeError", token |-> None]
    ELSE [exc |-> NoExc, token |-> resp.token]

\* variant: the exchange tries again by itself and hands on a token whatever
\* the first reply was
exchange_api_key_for_access_token_Retrying(resp) ==
    [exc |-> NoExc, token |-> "t1"]

\* EgsCoreApisClient.exchange_api_key_for_access_token, from the reply on:
\* the body is decoded first, then the HTTP status is examined
exchange_api_key_for_access_token(resp) ==
    IF resp.body = "notjson" THEN [exc |-> "JSONDecodeError", token |-> None]
    ELSE IF resp.status = 400 THEN [exc |-> "ApiKeyInvalid", token |-> None]
    ELSE IF resp.status = 401
    THEN IF resp.body = "empty" THEN [exc |-> "KeyError", token |-> None]
         ELSE IF resp.message = ExpiredMessage
         THEN [exc |-> "ApiKeyExpired", token |-> None]
         ELSE [exc |-> "ApiKeyNotFound", token |-> None]
    ELSE IF resp.status # 200 THEN [exc |-> "ServerUnreachable", token |-> None]
    ELSE IF resp.body = "empty" THEN [exc |-> "KeyError", token |-> None]
    ELSE IF resp.token = None THEN [exc |-> "TypeError", token |-> None]
    ELSE [exc |-> NoExc, token |-> resp.token]

\* variant: the exchange trades the client's key for the token
ClientAfterExchange_KeySpent(c, token) ==
    IF token # None THEN [c EXCEPT !.api_key = None, !.access_token = token] ELSE c

\* variant: the exchange keeps the token it obtained in the client
ClientAfterExchange_Caching(c, token) ==
    IF token # None THEN [c EXCEPT !.access_token = token] ELSE c

\* the exchange returns the token and assigns nothing to the client
ClientAfterExchange(c, token) == c

\* variant: a key is exchanged even when a token was supplied
NeedsExchange_KeyFirst(c) == Truthy(c.api_key)

\* invoke_sdk_operation line 82: exchange only when there is a key and no token
NeedsExchange(c) == Truthy(c.api_key) /\ ~Truthy(c.access_token)

\* ApiResponse.__init__: status_code is the statusCode field of the body
ApiResponse(resp) == [status_code |-> resp.statusCode, message |-> resp.message]

\* variant: 401 and 403 are handed to the caller like any other status
invoke_sdk_operation_reply_NoStatusCheck(resp) ==
    IF resp.body = "notjson" THEN [exc |-> "JSONDecodeError", status_code |-> 0]
    ELSE IF resp.body = "empty" THEN [exc |-> "TypeError", status_code |-> 0]
    ELSE [exc |-> NoExc, status_code |-> ApiResponse(resp).status_code]

\* variant: the HTTP status is examined before the body is decoded
invoke_sdk_operation_reply_StatusFirst(resp) ==
    IF resp.status = 401 \/ resp.status = 403
    THEN [exc |-> "Unauthorized", status_code |-> 0]
    ELSE IF resp.body = "notjson" THEN [exc |-> "JSONDecodeError", status_code |-> 0]
    ELSE IF resp.body = "empty" THEN [exc |-> "TypeError", status_code |-> 0]
    ELSE [exc |-> NoExc, status_code |-> ApiResponse(resp).status_code]

\* invoke_sdk_operation, from the resource reply on
invoke_sdk_operation_reply(resp) ==
    IF resp.body = "notjson" THEN [exc |-> "JSONDecodeError", status_code |-> 0]
    ELSE IF resp.status = 401 \/ resp.status = 403
    THEN [exc |-> "Unauthorized", status_code |-> 0]
    ELSE IF resp.body = "empty" THEN [exc |-> "TypeError", status_code |-> 0]
    ELSE [exc |-> NoExc, status_code |-> ApiResponse(resp).status_code]

(* ------------------------- default session slot ----------------------- *)
\* sessions are numbered from 1; 0 is Python None
\* egs.get_authenticated_session: 0 in the result stands for raising Unauthorized
get_authenticated_session(authenticated_session, slot) ==
    IF authenticated_session # 0 THEN authenticated_session ELSE slot

\* AuthenticatedSession.__init__ assigns a local name only: the slot is unchanged
AuthenticatedSession_init_slot(slot, session, sdk_default) == slot

\* variant: authenticate leaves the slot to the session constructor
authenticate_slot_Untouched(slot, session, sdk_default) == slot

\* variant: every session authenticate returns becomes the default
authenticate_slot_Unconditional(slot, session, sdk_default) == session

\* variant: a slot that is already set is kept
authenticate_slot_FirstWins(slot, session, sdk_default) ==
    IF sdk_default /\ slot = 0 THEN session ELSE slot

\* authenticate lines 38-40: update_global_session when sdk_default
authenticate_slot(slot, session, sdk_default) ==
    IF sdk_default THEN session ELSE slot

(* ------------------------------ authenticate -------------------------- *)
\* variant: only None counts as missing, as in the client constructors
authenticate_rejects_NoneOnly(api_key, access_token) ==
    api_key = None /\ access_token = None

\* authenticate line 25: neither credential is truthy
authenticate_rejects(api_key, access_token) ==
    ~Truthy(api_key) /\ ~Truthy(access_token)

\* variant: the client is given both credentials
authenticate_client_KeepsKey(endpoint, api_key, access_token) ==
    new_egs_core_apis_client(endpoint, api_key, access_token)

\* authenticate lines 29-34: the client is built from the token when there is one,
\* from the key otherwise
authenticate_client(endpoint, api_key, access_token) ==
    IF Truthy(access_token)
    THEN new_egs_core_apis_client(endpoint, None, access_token)
    ELSE new_egs_core_apis_client(endpoint, api_key, None)

\* variant: the key is exchanged only at first use
authenticate_exchanges_Lazy(api_key, access_token) == FALSE

\* authenticate line 36: the key branch exchanges the key at once
authenticate_exchanges(api_key, access_token) == ~Truthy(access_token)

(* -------------------------- resource functions ------------------------ *)
\* the functions of egs/inventory.py, which egs/__init__.py does not re-export
InventoryModuleFunctions == {"inventory.inventory", "inventory.workspace_inventory"}

\* functions that send a request object (invoke_sdk_operation's third argument)
FunctionsWithBody ==
    { "create_workspace", "update_workspace", "delete_workspace",
      "get_workspace_kubeconfig",
      "request_gpu", "cancel_gpu_request", "update_gpu_request_priority",
      "update_gpu_request_name", "release_gpu",
      "update_workspace_policy",
      "create_api_key", "delete_api_key",
      "create_inference_endpoint", "create_inference_endpoint_with_custom_model_spec",
      "delete_inference_endpoint",
      "create_gpr_template", "list_gpr_templates", "update_gpr_template",
      "delete_gpr_template",
      "create_gpr_template_binding", "list_gpr_template_bindings",
      "update_gpr_template_binding", "delete_gpr_template_binding" }

\* functions that call invoke_sdk_operation without a request object
FunctionsWithoutBody ==
    { "list_workspaces",
      "inventory", "workspace_inventory",
      "gpu_request_status", "gpu_request_status_for_workspace",
      "list_workspace_policies", "get_workspace_policy",
      "list_api_keys",
      "list_inference_endpoints", "describe_inference_endpoint",
      "get_gpr_template", "get_gpr_template_binding" }
    \cup InventoryModuleFunctions

\* every function that takes authenticated_session; detach_cluster_from_workspace
\* sends its requests through list_workspaces and update_workspace
ResourceFunctions ==
    FunctionsWithBody \cup FunctionsWithoutBody \cup {"detach_cluster_from_workspace"}

\* arguments that a function checks on the client side
NoArgs == [role |-> "none", workspace_name |-> None,
           enforce_idle_timeout |-> FALSE, idle_timeout_duration |-> None,
           clusters |-> NoneList, namespaces |-> NoneList, cluster_name |-> None,
           endpoint |-> <<>>, api_key |-> None, access_token |-> None,
           policy_name |-> None]

Roles == {"Owner", "Editor", "Viewer"}

\* the arguments a function is called with, where the function looks at them
ArgsOf(fn) ==
    IF fn = "create_api_key"
    THEN { [NoArgs EXCEPT !.role = r, !.workspace_name = w] :
             r \in Roles, w \in {None, "ws1"} }
         \cup { [NoArgs EXCEPT !.role = "Editor", !.workspace_name = ""],
                [NoArgs EXCEPT !.role = "Admin"] }
    ELSE IF fn = "create_gpr_template"
    THEN { [NoArgs EXCEPT !.enforce_idle_timeout = TRUE, !.idle_timeout_duration = d] :
             d \in {None, "", "1h"} }
         \cup { NoArgs }
    ELSE IF fn = "update_workspace"
    THEN { [NoArgs EXCEPT !.workspace_name = "ws1"],
           [NoArgs EXCEPT !.workspace_name = "ws1", !.clusters = {"c1"}],
           [NoArgs EXCEPT !.workspace_name = "ws1", !.clusters = {"c1"},
                          !.namespaces = {"n2"}] }
    ELSE IF fn = "detach_cluster_from_workspace"
    THEN { [NoArgs EXCEPT !.workspace_name = "ws1", !.cluster_name = "c1"] }
    ELSE IF fn \in {"get_workspace_policy", "update_workspace_policy"}
    THEN { [NoArgs EXCEPT !.policy_name = "p1"] }
    ELSE { NoArgs }

\* checks made before the session is resolved (create_gpr_template)
CheckBeforeSession(fn, args) ==
    IF fn = "create_gpr_template" /\ args.enforce_idle_timeout
       /\ ~Truthy(args.idle_timeout_duration)
    THEN "ValueError" ELSE NoExc

\* variant: only the Editor role needs a workspace
CheckAfterSession_EditorOnly(fn, args) ==
    IF fn = "create_api_key" /\ args.role = "Editor" /\ ~Truthy(args.workspace_name)
    THEN "ValueError" ELSE NoExc

\* checks made after the session is resolved, before the request (create_api_key)
CheckAfterSession(fn, args) ==
    IF fn = "create_api_key" /\ args.role \in {"Editor", "Viewer"}
       /\ ~Truthy(args.workspace_name)
    THEN "ValueError" ELSE NoExc

\* the session a function runs on; 0 when it has none
ResolveSession(fn, authenticated_session, slot) ==
    IF fn \in InventoryModuleFunctions
    THEN authenticated_session
    ELSE get_authenticated_session(authenticated_session, slot)

\* what a function raises when it has no session
NoSessionError(fn) ==
    IF fn \in InventoryModuleFunctions THEN "AttributeError" ELSE "Unauthorized"

CreateApiKeyErrorMap == {400, 401, 403, 404, 409, 422, 500, 503}
DeleteApiKeyErrorMap == {401, 403, 404}
ListApiKeysErrorMap == {401, 403, 404}

\* variant: every status other than 200 is unhandled
workspace_dispatch_Generic(fn, status_code) ==
    IF status_code # 200 THEN "UnhandledException" ELSE NoExc

\* egs/workspace.py: interpretation of the envelope's status_code
workspace_dispatch(fn, status_code) ==
    IF fn = "create_workspace"
    THEN IF status_code = 409 THEN "WorkspaceAlreadyExists"
         ELSE IF status_code = 422 THEN "BadParameters"
         ELSE IF status_code # 200 THEN "UnhandledException"
         ELSE NoExc
    ELSE IF fn = "update_workspace"
    THEN IF status_code = 404 THEN "ValueError"
         ELSE IF status_code = 422 THEN "BadParameters"
         ELSE IF status_code # 200 THEN "UnhandledException"
         ELSE NoExc
    ELSE IF status_code # 200 THEN "UnhandledException" ELSE NoExc

\* variant: the mutations report failures like the status queries do
gpu_requests_dispatch_Unhandled(fn, status_code) ==
    IF status_code = 200 THEN NoExc ELSE "UnhandledException"

\* egs/gpu_requests.py
gpu_requests_dispatch(fn, status_code) ==
    IF status_code = 200 THEN NoExc
    ELSE IF fn \in {"cancel_gpu_request", "update_gpu_request_priority",
                    "update_gpu_request_name"}
    THEN "GpuAlreadyProvisioned"
    ELSE IF fn = "release_gpu" THEN "GpuAlreadyReleased"
    ELSE "UnhandledException"

\* what an exception says about the resource it is about
NoResource == [resource_type |-> None, resource_id |-> None]

\* variant: ResourceNotFound raised with the defaults of its constructor
ExceptionResource_Defaults(fn, exc, args) ==
    IF exc = "ResourceNotFound"
    THEN [resource_type |-> "Resource", resource_id |-> None]
    ELSE NoResource

\* the resource_type and resource_id of a raised ResourceNotFound
ExceptionResource(fn, exc, args) ==
    IF exc = "ResourceNotFound"
    THEN [resource_type |-> "Workspace Policy", resource_id |-> args.policy_name]
    ELSE NoResource

\* egs/workspace_policy.py; list_workspace_policies calls
\* UnhandledException(**api_response.data), which raises TypeError
workspace_policy_dispatch(fn, status_code) ==
    IF fn = "list_workspace_policies"
    THEN IF status_code # 200 THEN "TypeError" ELSE NoExc
    ELSE IF fn = "get_workspace_policy"
    THEN IF status_code = 404 THEN "ResourceNotFound"
         ELSE IF status_code # 200 THEN "UnhandledException"
         ELSE NoExc
    ELSE IF status_code = 404 THEN "ResourceNotFound"
         ELSE IF status_code = 400 THEN "BadParameters"
         ELSE IF status_code # 200 THEN "UnhandledException"
         ELSE NoExc

\* variant: no status is reported as ValueError
api_key_dispatch_Unmapped(fn, status_code) ==
    IF status_code = 200 THEN NoExc ELSE "UnhandledException"

\* egs/api_key.py: 200 first, then the function's error_map, then the rest
api_key_dispatch(fn, status_code) ==
    LET error_map == IF fn = "create_api_key" THEN CreateApiKeyErrorMap
                     ELSE IF fn = "delete_api_key" THEN DeleteApiKeyErrorMap
                     ELSE ListApiKeysErrorMap
    IN IF status_code = 200 THEN NoExc
       ELSE IF status_code \in error_map THEN "ValueError"
       ELSE "UnhandledException"

WorkspaceFunctions ==
    {"create_workspace", "update_workspace", "delete_workspace", "list_workspaces",
     "get_workspace_kubeconfig"}
GpuRequestFunctions ==
    {"request_gpu", "cancel_gpu_request", "update_gpu_request_priority",
     "update_gpu_request_name", "release_gpu", "gpu_request_status",
     "gpu_request_status_for_workspace"}
WorkspacePolicyFunctions ==
    {"list_workspace_policies", "get_workspace_policy", "update_workspace_policy"}
ApiKeyFunctions == {"create_api_key", "delete_api_key", "list_api_keys"}

\* the status dispatch of function fn; the inventory, inference endpoint, GPR
\* template and template binding functions raise UnhandledException off 200
Dispatch(fn, status_code) ==
    IF fn \in WorkspaceFunctions THEN workspace_dispatch(fn, status_code)
    ELSE IF fn \in GpuRequestFunctions THEN gpu_requests_dispatch(fn, status_code)
    ELSE IF fn \in WorkspacePolicyFunctions
    THEN workspace_policy_dispatch(fn, status_code)
    ELSE IF fn \in ApiKeyFunctions THEN api_key_dispatch(fn, status_code)
    ELSE IF status_code # 200 THEN "UnhandledException" ELSE NoExc

\* what a function returns from a reply with status_code 200: the workspace
\* name unpacked from data, nothing (None), or the typed response built from data
Returned(fn, resp) ==
    IF fn \in {"create_workspace", "update_workspace", "detach_cluster_from_workspace"}
    THEN resp.data
    ELSE IF fn \in {"cancel_gpu_request", "update_gpu_request_priority",
                    "update_gpu_request_name", "release_gpu"}
    THEN None
    ELSE "response"

\* update_workspace reads the workspace first when a list is omitted
FirstPhase(fn, args) ==
    IF fn = "detach_cluster_from_workspace" THEN "details"
    ELSE IF fn = "update_workspace"
    THEN IF args.clusters = NoneList \/ args.namespaces = NoneList
         THEN "details" ELSE "update"
    ELSE "only"

\* _get_workspace_details: ValueError when the listing lacks the workspace
get_workspace_details(listing) == IF listing.found THEN NoExc ELSE "ValueError"

\* variant: the lists are sent as the caller gave them
update_workspace_request_AsGiven(args, listing) ==
    [clusters |-> args.clusters, namespaces |-> args.namespaces]

\* update_workspace: an omitted list is taken from the workspace read
update_workspace_request(args, listing) ==
    [clusters   |-> IF args.clusters = NoneList THEN listing.clusters
                    ELSE args.clusters,
     namespaces |-> IF args.namespaces = NoneList THEN listing.namespaces
                    ELSE args.namespaces]

\* variant: the last cluster may be detached
detach_refuses_AllowsEmpty(args, listing) ==
    IF args.cluster_name \notin listing.clusters THEN "ValueError" ELSE NoExc

\* detach_cluster_from_workspace: the checks on the workspace read
detach_refuses(args, listing) ==
    IF args.cluster_name \notin listing.clusters THEN "ValueError"
    ELSE IF listing.clusters \ {args.cluster_name} = {} THEN "ValueError"
    ELSE NoExc

\* detach_cluster_from_workspace: the lists it hands to update_workspace
detach_request(args, listing) ==
    [clusters   |-> listing.clusters \ {args.cluster_name},
     namespaces |-> listing.namespaces]

(* -------------------------------- state ------------------------------- *)
\* phase: "only" for a function that invokes the client once; "details" while
\* update_workspace or detach_cluster_from_workspace reads the workspace through
\* list_workspaces; "update" while update_workspace sends its PUT
IdleCall == [pc |-> "idle", op |-> "none", given |-> 0, session |-> 0, client |-> 0,
             sdk_default |-> FALSE, args |-> NoArgs, invoked |-> 0,
             phase |-> "only", put |-> NoPut]

\* the operation of a thread has returned or raised; the caller holds the result
DoneCall == [IdleCall EXCEPT !.pc = "done"]

NoResponse == [status |-> 0, body |-> "none", message |-> None]

\* outcome of an operation: what it returned (ret: a session or a client; value:
\* the result of a resource function) or raised (exc), the reply it ended on
\* (stage, status, body, message) and the envelope's status_code
NoLast == [op |-> "none", exc |-> NoExc, ret |-> 0, given |-> 0, session |-> 0,
           client |-> 0, stage |-> "none", status |-> 0, body |-> "none",
           message |-> None, status_code |-> 0, sdk_default |-> FALSE,
           args |-> NoArgs, invoked |-> 0, phase |-> "only", data |-> None,
           value |-> None, resource |-> NoResource]

\* the outcome of operation k (a call record) ending with exc and ret
Outcome(k, exc, ret, sess, stage, resp, status_code) ==
    [op |-> k.op, exc |-> exc, ret |-> ret, given |-> k.given, session |-> sess,
     client |-> k.client, stage |-> stage, status |-> resp.status, body |-> resp.body,
     message |-> resp.message, status_code |-> status_code,
     sdk_default |-> k.sdk_default, args |-> k.args, invoked |-> k.invoked,
     phase |-> k.phase,
     data |-> IF stage = "resource" THEN resp.data ELSE None,
     value |-> IF stage = "resource" /\ exc = NoExc THEN Returned(k.op, resp)
               ELSE None,
     resource |-> ExceptionResource(k.op, exc, k.args)]

\* the function that is calling invoke_sdk_operation in operation k
By(k) ==
    IF k.phase = "details" THEN "list_workspaces"
    ELSE IF k.phase = "update" THEN "update_workspace"
    ELSE k.op

\* the auth request: a JSON payload, Content-Type only, no Authorization header;
\* answer is the status read from the reply, 0 until the call has gone on from it
AuthRequest(c, by, key) ==
    [kind |-> "auth", by |-> by, client |-> c, key |-> key,
     authorization |-> None, body |-> TRUE, content_type |-> TRUE, token |-> None,
     data_token |-> None, put |-> NoPut, listing |-> Unlisted, answer |-> 0]

\* variant: every resource request is labelled as JSON
ContentTypeHeader_Always(request) == TRUE

\* invoke_sdk_operation lines 90-92: Content-Type is set with the payload, when
\* the caller passed a request object
ContentTypeHeader(request) == request

\* a resource request: 'Bearer ' + token; body says whether fn passes a request
\* object to invoke_sdk_operation
ResourceRequest(c, fn, bearer, put) ==
    [kind |-> "resource", by |-> fn, client |-> c, key |-> None,
     authorization |-> bearer, body |-> fn \in FunctionsWithBody,
     content_type |-> ContentTypeHeader(fn \in FunctionsWithBody),
     token |-> None, data_token |-> None, put |-> put, listing |-> Unlisted,
     answer |-> 0]

\* current: one entry for each request of the operation in progress or just
\* finished, TRUE while that request's connection is open; earlier: how many
\* connections opened within invoke_sdk_operation by earlier operations are
\* still open
NoConnections == [current |-> <<>>, earlier |-> 0]

\* the clusters a workspace of the server can span, and the workspace ws1 as the
\* server holds it at first
ServerClusterNames == {"c1", "c2", "c3"}
ServerWorkspace == [clusters |-> ServerClusterNames, namespaces |-> NamespaceNames]

Init ==
    /\ clients = <<>>
    /\ sessions = <<>>
    /\ global_session = 0
    /\ call = [t \in Threads |-> IdleCall]
    /\ reqs = [t \in Threads |-> <<>>]
    /\ last = [t \in Threads |-> NoLast]
    /\ built = <<>>
    /\ nops = 0
    /\ conns = [t \in Threads |-> NoConnections]
    /\ server = ServerWorkspace

\* thread t starts a public operation
Start(t) ==
    /\ call[t].pc = "idle"
    /\ nops < MaxCalls
    /\ nops' = nops + 1

\* the operation of thread t ends with the given outcome
Finish(t, outcome) ==
    /\ call' = [call EXCEPT ![t] = DoneCall]
    /\ last' = [last EXCEPT ![t] = outcome]

\* the arguments of authenticate and of the client constructors
Credentials(endpoint, api_key, access_token) ==
    [NoArgs EXCEPT !.endpoint = endpoint, !.api_key = api_key,
                   !.access_token = access_token]

\* authenticate line 37 in operation k of thread t: the session is constructed
\* around the client; the result is settled, and what remains of the call is
\* lines 38-40, which another thread's steps can precede
SessionCreated(t, k, stage, resp) ==
    LET s == Len(sessions) + 1
    IN /\ sessions' = Append(sessions, [client |-> k.client])
       /\ global_session' = AuthenticatedSession_init_slot(global_session, s, k.sdk_default)
       /\ last' = [last EXCEPT ![t] = Outcome(k, NoExc, s, s, stage, resp, 0)]
       /\ call' = [call EXCEPT ![t] = [k EXCEPT !.pc = "publish", !.session = s]]

\* authenticate lines 38-41 in thread t: with sdk_default the session is written
\* to the slot, over whatever the slot holds by now, and the call returns
update_global_session(t) ==
    /\ call[t].pc = "publish"
    /\ global_session' = authenticate_slot(global_session, call[t].session,
                                           call[t].sdk_default)
    /\ call' = [call EXCEPT ![t] = DoneCall]
    /\ UNCHANGED <<clients, built, sessions, reqs, last, nops>>

\* authenticate, up to the point where it has its session, raises or waits for
\* the reply to its token exchange
Authenticate(t, endpoint, api_key, access_token, sdk_default) ==
    /\ Start(t)
    /\ LET k == [IdleCall EXCEPT !.op = "authenticate", !.sdk_default = sdk_default,
                                 !.args = Credentials(endpoint, api_key, access_token)]
           r == authenticate_client(endpoint, api_key, access_token)
           c == Len(clients) + 1
           kc == [k EXCEPT !.client = c]
       IN IF authenticate_rejects(api_key, access_token)
          THEN /\ Finish(t, Outcome(k, "ValueError", 0, 0, "none", NoResponse, 0))
               /\ UNCHANGED <<clients, built, sessions, global_session, reqs>>
          ELSE IF r.exc # NoExc
          THEN /\ Finish(t, Outcome(k, r.exc, 0, 0, "none", NoResponse, 0))
               /\ UNCHANGED <<clients, built, sessions, global_session, reqs>>
          ELSE /\ clients' = Append(clients, r.client)
               /\ built' = Append(built, r.client)
               /\ IF authenticate_exchanges(api_key, access_token)
                  THEN /\ reqs' = [reqs EXCEPT ![t] =
                                     <<AuthRequest(c, "authenticate", r.client.api_key)>>]
                       /\ call' = [call EXCEPT ![t] = [kc EXCEPT !.pc = "auth"]]
                       /\ UNCHANGED <<sessions, global_session, last>>
                  ELSE /\ SessionCreated(t, kc, "none", NoResponse)
                       /\ UNCHANGED reqs

(* ----------------------------- constructors --------------------------- *)
\* a caller constructs a client itself, through either construction path
NewClient(t, via, server_url, api_key, access_token) ==
    /\ Start(t)
    /\ LET k == [IdleCall EXCEPT !.op = via,
                                 !.args = Credentials(server_url, api_key, access_token)]
           r == IF via = "new_egs_core_apis_client"
                THEN new_egs_core_apis_client(server_url, api_key, access_token)
                ELSE EgsCoreApisClient_init(server_url, api_key, access_token)
           c == Len(clients) + 1
       IN IF r.exc # NoExc
          THEN /\ Finish(t, Outcome(k, r.exc, 0, 0, "none", NoResponse, 0))
               /\ UNCHANGED <<clients, built>>
          ELSE /\ clients' = Append(clients, r.client)
               /\ built' = Append(built, r.client)
               /\ Finish(t, Outcome([k EXCEPT !.client = c], NoExc, c, 0, "none",
                                    NoResponse, 0))
    /\ UNCHANGED <<sessions, global_session, reqs>>

\* a caller wraps a client in an AuthenticatedSession itself
NewSession(t, c, sdk_default) ==
    /\ Start(t)
    /\ c \in 1..Len(clients)
    /\ sessions' = Append(sessions, [client |-> c])
    /\ global_session' =
         AuthenticatedSession_init_slot(global_session, Len(sessions) + 1, sdk_default)
    /\ Finish(t, Outcome([IdleCall EXCEPT !.op = "AuthenticatedSession", !.client = c,
                                          !.sdk_default = sdk_default],
                         NoExc, Len(sessions) + 1, Len(sessions) + 1, "none",
                         NoResponse, 0))
    /\ UNCHANGED <<clients, built, reqs>>

(* --------------------------- resource functions ----------------------- *)
\* invoke_sdk_operation up to its first request, in operation k of thread t
\* whose requests so far are sent: the token exchange when the client holds
\* only a key, otherwise the resource request under the client's token
BeginInvoke(t, k, put, sent) ==
    LET c == k.client
        ki == [k EXCEPT !.invoked = @ + 1, !.put = put]
    IN IF NeedsExchange(clients[c])
       THEN /\ reqs' = [reqs EXCEPT ![t] =
                          Append(sent, AuthRequest(c, By(ki), clients[c].api_key))]
            /\ call' = [call EXCEPT ![t] = [ki EXCEPT !.pc = "auth"]]
            /\ UNCHANGED last
       ELSE IF clients[c].access_token = None
       THEN \* 'Bearer ' + None
            /\ Finish(t, Outcome(ki, "TypeError", 0, k.session, "none", NoResponse, 0))
            /\ reqs' = [reqs EXCEPT ![t] = sent]
       ELSE /\ reqs' = [reqs EXCEPT ![t] =
                          Append(sent, ResourceRequest(c, By(ki),
                                                       clients[c].access_token, put))]
            /\ call' = [call EXCEPT ![t] = [ki EXCEPT !.pc = "resource"]]
            /\ UNCHANGED last

\* a resource function, up to the point where it raises or waits for a reply
Call(t, fn, authenticated_session, args) ==
    /\ Start(t)
    /\ authenticated_session \in 0..Len(sessions)
    /\ LET s == ResolveSession(fn, authenticated_session, global_session)
           c == IF s = 0 THEN 0 ELSE sessions[s].client
           k == [IdleCall EXCEPT !.op = fn, !.given = authenticated_session,
                                 !.args = args]
           ks == [k EXCEPT !.session = s, !.client = c,
                           !.phase = FirstPhase(fn, args)]
           put == IF FirstPhase(fn, args) = "update"
                  THEN [clusters |-> args.clusters, namespaces |-> args.namespaces]
                  ELSE NoPut
       IN IF CheckBeforeSession(fn, args) # NoExc
          THEN /\ Finish(t, Outcome(k, CheckBeforeSession(fn, args), 0, 0, "none",
                                    NoResponse, 0))
               /\ UNCHANGED reqs
          ELSE IF s = 0
          THEN /\ Finish(t, Outcome(k, NoSessionError(fn), 0, 0, "none", NoResponse, 0))
               /\ UNCHANGED reqs
          ELSE IF CheckAfterSession(fn, args) # NoExc
          THEN /\ Finish(t, Outcome(ks, CheckAfterSession(fn, args), 0, s, "none",
                                    NoResponse, 0))
               /\ UNCHANGED reqs
          ELSE BeginInvoke(t, ks, put, reqs[t])
    /\ UNCHANGED <<clients, built, sessions, global_session>>

\* the auth endpoint replies to the token exchange thread t waits for
AuthReply(t, resp) ==
    /\ call[t].pc = "auth"
    /\ LET r == exchange_api_key_for_access_token(resp)
           k == call[t]
           c == k.client
           answered == [reqs[t] EXCEPT ![Len(reqs[t])].token = r.token,
                                       ![Len(reqs[t])].data_token = resp.token,
                                       ![Len(reqs[t])].answer = resp.status]
       IN /\ clients' = [clients EXCEPT ![c] = ClientAfterExchange(@, r.token)]
          /\ IF r.exc # NoExc
             THEN /\ Finish(t, Outcome(k, r.exc, 0, k.session, "auth", resp, 0))
                  /\ reqs' = [reqs EXCEPT ![t] = answered]
                  /\ UNCHANGED <<sessions, global_session>>
             ELSE IF k.op = "authenticate"
             THEN /\ SessionCreated(t, k, "auth", resp)
                  /\ reqs' = [reqs EXCEPT ![t] = answered]
             ELSE /\ reqs' = [reqs EXCEPT ![t] =
                                Append(answered, ResourceRequest(c, By(k), r.token, k.put))]
                  /\ call' = [call EXCEPT ![t].pc = "resource"]
                  /\ UNCHANGED <<sessions, global_session, last>>
    /\ UNCHANGED <<built, nops>>

\* the server replies to the resource request thread t waits for, the last
\* request of its operation
ResourceReply(t, resp) ==
    /\ call[t].pc = "resource"
    /\ call[t].phase # "details"
    /\ LET r == invoke_sdk_operation_reply(resp)
           exc == IF r.exc # NoExc THEN r.exc ELSE Dispatch(By(call[t]), r.status_code)
       IN Finish(t, Outcome(call[t], exc, 0, call[t].session, "resource", resp,
                            r.status_code))
    /\ UNCHANGED <<clients, built, sessions, global_session, reqs, nops>>

\* the server replies to the list request of _get_workspace_details; listing is
\* what a successful reply says about the workspace asked for
DetailsReply(t, resp, listing) ==
    /\ call[t].pc = "resource"
    /\ call[t].phase = "details"
    /\ LET k == call[t]
           r == invoke_sdk_operation_reply(resp)
           exc == IF r.exc # NoExc THEN r.exc
                  ELSE Dispatch("list_workspaces", r.status_code)
           refusal == IF get_workspace_details(listing) # NoExc
                      THEN get_workspace_details(listing)
                      ELSE IF k.op = "detach_cluster_from_workspace"
                      THEN detach_refuses(k.args, listing)
                      ELSE NoExc
           put == IF k.op = "detach_cluster_from_workspace"
                  THEN detach_request(k.args, listing)
                  ELSE update_workspace_request(k.args, listing)
           answered == [reqs[t] EXCEPT ![Len(reqs[t])].listing = listing,
                                       ![Len(reqs[t])].answer = r.status_code]
       IN IF exc # NoExc
          THEN /\ listing = NoListing
               /\ Finish(t, Outcome(k, exc, 0, k.session, "resource", resp,
                                    r.status_code))
               /\ UNCHANGED reqs
          ELSE IF refusal # NoExc
          THEN /\ Finish(t, Outcome(k, refusal, 0, k.session, "resource", resp,
                                    r.status_code))
               /\ reqs' = [reqs EXCEPT ![t] = answered]
          ELSE BeginInvoke(t, [k EXCEPT !.phase = "update"], put, answered)
    /\ UNCHANGED <<clients, built, sessions, global_session, nops>>

\* the caller drops the result of its latest operation and goes on
Forget(t) ==
    /\ call[t].pc = "done"
    /\ call' = [call EXCEPT ![t] = IdleCall]
    /\ last' = [last EXCEPT ![t] = NoLast]
    /\ reqs' = [reqs EXCEPT ![t] = <<>>]
    /\ UNCHANGED <<clients, built, sessions, global_session, nops>>

(* ------------------------------ connections -------------------------- *)
\* the number of TRUE entries of a sequence of booleans
CountOpen(seq) == Cardinality({ i \in 1..Len(seq) : seq[i] })

\* What a step of thread t does to its connections.  Each request is sent on an
\* HTTPConnection or HTTPSConnection object made for it and held in a local
\* variable; neither method calls close().  Once the reply is read the
\* connection is closed only if the server closed it or the runtime has
\* already finalised the dropped object, which the code does not decide: keep
\* says whether it is still open.
Connections(t, keep) ==
    LET cur == conns[t].current
        heard == IF call[t].pc \in {"auth", "resource"}
                 THEN [cur EXCEPT ![Len(cur)] = keep]
                 ELSE cur
        sent == Len(reqs'[t]) > Len(reqs[t])
    IN conns' = [conns EXCEPT ![t] =
                   IF call[t].pc = "done"
                   THEN [current |-> <<>>,
                         earlier |-> IF last[t].op \in ResourceFunctions
                                     THEN @.earlier + CountOpen(cur)
                                     ELSE @.earlier]
                   ELSE [current |-> IF sent THEN Append(heard, TRUE) ELSE heard,
                         earlier |-> @.earlier]]

(* ---------------------------- specification --------------------------- *)
Constructors == {"new_egs_core_apis_client", "EgsCoreApisClient"}

\* the functions exercised on clients that callers construct themselves
ClientFunctions == {"list_workspaces", "create_workspace"}

Replies(t) ==
    \/ \E resp \in AuthResponses : AuthReply(t, resp)
    \/ update_global_session(t)
    \/ \E resp \in ResourceResponses : ResourceReply(t, resp)
    \/ Forget(t)

\* the SDK as egs/__init__.py exports it, plus the module egs/inventory.py
SdkStep(t) ==
    \/ \E e \in SdkEndpoints, k \in ApiKeys, a \in AccessTokens, d \in BOOLEAN :
         Authenticate(t, e, k, a, d)
    \/ \E fn \in ResourceFunctions, s \in 0..Len(sessions) :
         \E args \in ArgsOf(fn) : Call(t, fn, s, args)
    \/ Replies(t)
    \/ \E resp \in ResourceResponses, listing \in Listings :
         DetailsReply(t, resp, listing)

\* callers that construct clients and sessions themselves
ClientStep(t) ==
    \/ \E v \in Constructors, e \in Endpoints, k \in ApiKeys, a \in AccessTokens :
         NewClient(t, v, e, k, a)
    \/ \E c \in 1..Len(clients), d \in BOOLEAN : NewSession(t, c, d)
    \/ \E fn \in ClientFunctions, s \in 0..Len(sessions) : Call(t, fn, s, NoArgs)
    \/ Replies(t)

\* one caller: every operation runs to its end before the next one starts;
\* connections are not observed
Next == SdkStep("main") /\ UNCHANGED <<conns, server>>

Spec == Init /\ [][Next]_vars

NextClient == ClientStep("main") /\ UNCHANGED <<conns, server>>

SpecClient == Init /\ [][NextClient]_vars

\* the calls and replies under which connections are observed
ConnEndpoint == <<"https", "://", "h", ":", "8443", "/", "p">>
ConnFunctions == {"list_workspaces", "update_workspace"}
ConnAuthResponses ==
    { r \in AuthResponses :
        r.body = "envelope" /\ r.status \in {200, 401} /\ r.message = "other"
        /\ (r.status = 200 => r.token = "t1") }
ConnResponses ==
    { r \in ResourceResponses :
        r.body = "envelope" /\ r.status = r.statusCode /\ r.status \in {200, 401, 500} }

\* the SDK's operations together with what they do to the connections
ConnStep(t) ==
    \E keep \in BOOLEAN :
        /\ \/ \E k \in {"k1"}, a \in {None, "tA"} :
                  Authenticate(t, ConnEndpoint, k, a, TRUE)
           \/ \E fn \in ConnFunctions, s \in 0..Len(sessions) :
                  \E args \in ArgsOf(fn) : Call(t, fn, s, args)
           \/ \E resp \in ConnAuthResponses : AuthReply(t, resp)
           \/ \E resp \in ConnResponses : ResourceReply(t, resp)
           \/ \E resp \in ConnResponses, listing \in Listings :
                  DetailsReply(t, resp, listing)
           \/ update_global_session(t)
           \/ Forget(t)
        /\ Connections(t, keep)

NextConn == ConnStep("main") /\ UNCHANGED server

SpecConn == Init /\ [][NextConn]_vars

\* two callers of one process, each with credentials of its own: "main" holds
\* an API key, "second" an access token
RaceCredentials(t) ==
    IF t = "main" THEN [api_key |-> "k1", access_token |-> None]
    ELSE [api_key |-> None, access_token |-> "tA"]

\* what each of the two callers does: authenticate(..., sdk_default=True) and
\* list_workspaces without an explicit session
RaceStep(t) ==
    \/ Authenticate(t, ConnEndpoint, RaceCredentials(t).api_key,
                    RaceCredentials(t).access_token, TRUE)
    \/ \E args \in ArgsOf("list_workspaces") : Call(t, "list_workspaces", 0, args)
    \/ \E resp \in ConnAuthResponses : AuthReply(t, resp)
    \/ \E resp \in ConnResponses : ResourceReply(t, resp)
    \/ update_global_session(t)
    \/ Forget(t)

\* the threads of the process interleave at every request, at every reply and
\* between the construction of a session and its write to the slot
NextRace == \E t \in Threads : RaceStep(t) /\ UNCHANGED <<conns, server>>

SpecRace == Init /\ [][NextRace]_vars

\* the cluster each of the two callers detaches from the workspace ws1
DetachArgs(t) ==
    [NoArgs EXCEPT !.workspace_name = "ws1",
                   !.cluster_name = IF t = "main" THEN "c1" ELSE "c2"]

\* replies of the server to the requests of detach_cluster_from_workspace
DetachResponses ==
    { r \in ResourceResponses :
        r.body = "envelope" /\ r.status = r.statusCode /\ r.status \in {200, 500} }

\* what a successful list_workspaces reply says about ws1: what the server
\* holds when it answers
ServerListing == [found |-> TRUE, clusters |-> server.clusters,
                  namespaces |-> server.namespaces]

\* the server answering a PUT on /api/v1/slice-workspace: with success the lists
\* of the request replace those of the workspace
ServerAfterPut(put, resp) ==
    IF resp.status = 200 /\ resp.statusCode = 200 THEN put ELSE server

\* authenticate with a token as the process default, and the steps of
\* detach_cluster_from_workspace on the default session against that server
DetachStep(t) ==
    \/ /\ Authenticate(t, ConnEndpoint, None, "tA", TRUE)
       /\ UNCHANGED server
    \/ /\ update_global_session(t)
       /\ UNCHANGED server
    \/ /\ Call(t, "detach_cluster_from_workspace", 0, DetachArgs(t))
       /\ UNCHANGED server
    \/ \E resp \in DetachResponses :
         /\ DetailsReply(t, resp, IF resp.statusCode = 200 THEN ServerListing
                                  ELSE NoListing)
         /\ UNCHANGED server
    \/ \E resp \in DetachResponses :
         /\ ResourceReply(t, resp)
         /\ server' = ServerAfterPut(call[t].put, resp)
    \/ /\ Forget(t)
       /\ UNCHANGED server

\* two callers of one process; their calls interleave at every request and reply
NextDetach == \E t \in Threads : DetachStep(t) /\ UNCHANGED conns

SpecDetach == Init /\ [][NextDetach]_vars

(* ------------------------------- claims ------------------------------- *)
\* the operation thread t is in or has just finished
Op(t) == IF call[t].pc = "done" THEN last[t] ELSE call[t]

InCall(t) == call[t].pc \in {"auth", "resource", "done"} /\ Op(t).op \in ResourceFunctions

AuthRequests(t) == { i \in 1..Len(reqs[t]) : reqs[t][i].kind = "auth" }
ResRequests(t) == { i \in 1..Len(reqs[t]) : reqs[t][i].kind = "resource" }

\* a function's own argument checks reject the call on the client side
RejectedArguments(l) ==
    CheckBeforeSession(l.op, l.args) # NoExc \/ CheckAfterSession(l.op, l.args) # NoExc

\* a client record holding an API key and no access token
HoldsOnlyKey(c) == Truthy(c.api_key) /\ ~Truthy(c.access_token)

\* C1: every resource function runs on the explicit session when one is passed,
\* otherwise on the default session, and with neither raises Unauthorized
\* without sending a request.  Stated for every function of the repository,
\* those of egs/inventory.py included.
C1_SessionResolution ==
    \A t \in Threads :
        (call[t].pc = "done" /\ last[t].op \in ResourceFunctions) =>
            LET l == last[t]
                expected == IF l.given # 0 THEN l.given ELSE global_session
            IN /\ (expected # 0 /\ ~RejectedArguments(l))
                      => (l.invoked > 0 /\ l.session = expected)
               /\ expected = 0 => (l.exc = "Unauthorized" /\ reqs[t] = <<>>)

\* C2: on a client built with only an API key every invocation of
\* invoke_sdk_operation sends exactly one auth request, first; a resource request
\* directly follows the auth request of its own call and carries the token that
\* exchange returned.
C2_ExchangeOnEveryInvocation ==
    \A t \in Threads :
        (InCall(t) /\ Op(t).client # 0 /\ HoldsOnlyKey(built[Op(t).client])) =>
            /\ Cardinality(AuthRequests(t)) = Op(t).invoked
            /\ Cardinality(ResRequests(t)) <= Cardinality(AuthRequests(t))
            /\ \A i \in ResRequests(t) :
                 /\ i > 1
                 /\ reqs[t][i-1].kind = "auth"
                 /\ reqs[t][i-1].client = reqs[t][i].client
                 /\ reqs[t][i-1].token # None
                 /\ reqs[t][i].authorization = reqs[t][i-1].token
            /\ call[t].pc = "resource" => reqs[t][Len(reqs[t])].kind = "resource"

\* update_workspace reads the workspace and then updates it: two invocations,
\* two exchanges, each request under the token of its own exchange
C2_Witness ==
    /\ call["main"].pc = "done"
    /\ last["main"].op = "update_workspace"
    /\ last["main"].exc = NoExc
    /\ HoldsOnlyKey(built[last["main"].client])
    /\ Len(reqs["main"]) = 4
    /\ reqs["main"][1].kind = "auth" /\ reqs["main"][1].token = "t1"
    /\ reqs["main"][2].authorization = "t1"
    /\ reqs["main"][3].kind = "auth" /\ reqs["main"][3].token = "t2"
    /\ reqs["main"][4].authorization = "t2"

\* C3: on a client built with an access token no invocation sends an auth
\* request; the request it sends carries the supplied token.
C3_SuppliedTokenNeverExchanged ==
    \A t \in Threads :
        (InCall(t) /\ Op(t).client # 0 /\ Truthy(built[Op(t).client].access_token)) =>
            /\ AuthRequests(t) = {}
            /\ Op(t).invoked > 0 => Len(reqs[t]) = Op(t).invoked
            /\ \A i \in 1..Len(reqs[t]) :
                 reqs[t][i].authorization = built[Op(t).client].access_token

\* a client holding both a key and a token answers a call with the token alone
C3_Witness ==
    /\ call["main"].pc = "done"
    /\ last["main"].op = "create_workspace"
    /\ last["main"].exc = NoExc
    /\ built[last["main"].client].api_key = "k1"
    /\ built[last["main"].client].access_token = "tA"
    /\ Len(reqs["main"]) = 1
    /\ reqs["main"][1].authorization = "tA"

\* C4: a successful authenticate returns a session made by this call, wrapping
\* a client made by this call, for either value of sdk_default; with sdk_default
\* the default-session slot holds the returned session.
C4_AuthenticateReturnsNewSession ==
    \A t \in Threads :
        (call[t].pc = "done" /\ last[t].op = "authenticate" /\ last[t].exc = NoExc) =>
            LET l == last[t] IN
            /\ l.ret > 0
            /\ l.ret = Len(sessions)
            /\ sessions[l.ret].client = Len(clients)
            /\ l.client = Len(clients)
            /\ \A s \in 1..Len(sessions) :
                 s # l.ret => sessions[s].client # sessions[l.ret].client
            /\ l.sdk_default => global_session = l.ret

\* a second authenticate with sdk_default replaces the default session
C4_Witness ==
    /\ call["main"].pc = "done"
    /\ last["main"].op = "authenticate"
    /\ last["main"].exc = NoExc
    /\ last["main"].sdk_default
    /\ last["main"].ret = 2
    /\ global_session = 2

\* the arguments of an authenticate call that gives only an API key
OnlyKeyGiven(a) == Truthy(a.api_key) /\ ~Truthy(a.access_token)

\* C5: authenticate with only an API key returns only after one token exchange
\* that succeeded; when the exchange fails the call raises the exchange's error
\* (ApiKeyNotFound for a 401 that is not an expiry), returns no session and
\* sends no resource request.
C5_AuthenticateExchangesAtOnce ==
    \A t \in Threads :
        (call[t].pc = "done" /\ last[t].op = "authenticate"
         /\ OnlyKeyGiven(last[t].args)) =>
            LET l == last[t] IN
            /\ l.exc = NoExc =>
                 /\ Len(reqs[t]) = 1
                 /\ reqs[t][1].kind = "auth"
                 /\ reqs[t][1].key = l.args.api_key
                 /\ reqs[t][1].token # None
                 /\ l.stage = "auth" /\ l.status = 200
            /\ (l.stage = "auth" /\ l.status # 200) => l.exc # NoExc
            /\ (l.stage = "auth" /\ l.exc # NoExc) =>
                 /\ l.ret = 0
                 /\ Len(reqs[t]) = 1
                 /\ ResRequests(t) = {}
                 /\ \A s \in 1..Len(sessions) : sessions[s].client # l.client
            /\ (l.stage = "auth" /\ l.status = 401 /\ l.body = "envelope"
                /\ l.message # ExpiredMessage) => l.exc = "ApiKeyNotFound"
            /\ l.stage = "none" => (l.exc # NoExc /\ l.ret = 0 /\ reqs[t] = <<>>)

\* authenticate with an unknown key fails at once
C5_Witness ==
    /\ call["main"].pc = "done"
    /\ last["main"].op = "authenticate"
    /\ last["main"].args.api_key = "k1"
    /\ last["main"].exc = "ApiKeyNotFound"
    /\ last["main"].status = 401
    /\ Len(reqs["main"]) = 1
    /\ sessions = <<>>

\* a token exchange, in authenticate or in a resource call, has just ended the call
ExchangeEnded(t) == call[t].pc = "done" /\ last[t].stage = "auth"

\* the mapping of an auth response by its HTTP status
ExchangeMapping(t) ==
    LET l == last[t]
        q == reqs[t][Len(reqs[t])]
    IN /\ l.status = 400 => l.exc = "ApiKeyInvalid"
       /\ (l.status = 401 /\ l.message = ExpiredMessage) => l.exc = "ApiKeyExpired"
       /\ (l.status = 401 /\ l.message # ExpiredMessage) => l.exc = "ApiKeyNotFound"
       /\ l.status \notin {200, 400, 401} => l.exc = "ServerUnreachable"
       /\ l.status = 200 =>
            (l.exc = NoExc /\ q.token # None /\ q.token = q.data_token)

\* C6 as stated: the auth response is mapped by its HTTP status alone, whatever
\* its body.
C6_MappingByStatusAlone ==
    \A t \in Threads : ExchangeEnded(t) => ExchangeMapping(t)

\* the body of the auth response has what the exchange reads at this status
ExchangeBodyReadable(l, q) ==
    /\ l.body # "notjson"
    /\ l.status = 401 => l.body = "envelope"
    /\ l.status = 200 => (l.body = "envelope" /\ q.data_token # None)

\* C6: when the auth response is JSON that carries what the exchange reads at
\* its status (message on 401, data with a token on 200), the exchange maps it
\* by HTTP status; a resource call that went past its exchange bears the token
\* of the response's data.
C6_MappingOfReadableBodies ==
    \A t \in Threads :
        /\ (ExchangeEnded(t)
            /\ ExchangeBodyReadable(last[t], reqs[t][Len(reqs[t])]))
               => ExchangeMapping(t)
        /\ call[t].pc = "resource" =>
             \A i \in AuthRequests(t) :
                 reqs[t][i].token # None /\ reqs[t][i].token = reqs[t][i].data_token

\* a resource call stopped by an expired key
C6_Witness ==
    /\ call["main"].pc = "done"
    /\ last["main"].op = "list_workspaces"
    /\ last["main"].stage = "auth"
    /\ last["main"].status = 401
    /\ last["main"].message = ExpiredMessage
    /\ last["main"].exc = "ApiKeyExpired"

\* a resource request has been answered
ResourceAnswered(t) == call[t].pc = "done" /\ last[t].stage = "resource"

\* C7 as stated: a resource response with HTTP status 401 or 403 raises
\* Unauthorized in every resource function, whatever its body.
C7_UnauthorizedOnAnyBody ==
    \A t \in Threads :
        (ResourceAnswered(t) /\ last[t].status \in {401, 403})
            => last[t].exc = "Unauthorized"

\* C7: a resource response with HTTP status 401 or 403 whose body is JSON
\* raises Unauthorized in every resource function.
C7_UnauthorizedOnJsonBody ==
    \A t \in Threads :
        (ResourceAnswered(t) /\ last[t].status \in {401, 403}
         /\ last[t].body # "notjson")
            => (last[t].exc = "Unauthorized" /\ last[t].ret = 0)

\* create_api_key, which maps 403 of the envelope to ValueError, answered 403
C7_Witness ==
    /\ call["main"].pc = "done"
    /\ last["main"].op = "create_api_key"
    /\ last["main"].stage = "resource"
    /\ last["main"].status = 403
    /\ last["main"].body = "envelope"
    /\ last["main"].exc = "Unauthorized"

\* C8: a resource response with a JSON envelope and an HTTP status other than
\* 401 and 403 yields an envelope whose status_code is that HTTP status.
C8_StatusCodeIsHttpStatus ==
    \A t \in Threads :
        (ResourceAnswered(t) /\ last[t].status \notin {401, 403}
         /\ last[t].body = "envelope")
            => last[t].status_code = last[t].status

\* C9: no client holds two empty credentials, and a construction given a
\* server URL with a scheme and two empty credentials ends in ValueError,
\* through new_egs_core_apis_client and the constructor alike.
C9_NoClientWithoutCredentials ==
    /\ \A c \in 1..Len(built) :
           Truthy(built[c].api_key) \/ Truthy(built[c].access_token)
    /\ \A t \in Threads :
           (call[t].pc = "done" /\ last[t].op \in Constructors
            /\ IndexOf(last[t].args.endpoint, "://") # 0
            /\ ~Truthy(last[t].args.api_key) /\ ~Truthy(last[t].args.access_token))
               => last[t].exc = "ValueError"

\* the operation of thread t is authenticate without a truthy credential
AuthenticateWithoutCredentials(t) ==
    /\ Op(t).op = "authenticate"
    /\ ~Truthy(Op(t).args.api_key)
    /\ ~Truthy(Op(t).args.access_token)

\* C10: the step that begins authenticate without a truthy credential ends it
\* with ValueError, for every endpoint, and builds no client, makes no session,
\* sends no request and leaves the default-session slot alone.
C10_RejectedBeforeAnyEffect ==
    [][\A t \in Threads :
          (call[t].pc = "idle" /\ call'[t].pc # "idle"
           /\ AuthenticateWithoutCredentials(t)')
              => /\ call'[t].pc = "done"
                 /\ last'[t].exc = "ValueError"
                 /\ last'[t].ret = 0
                 /\ reqs'[t] = <<>>
                 /\ UNCHANGED <<clients, built, sessions, global_session>>]_vars

\* authenticate("https://h:8443/p", api_key="") rejected while a default
\* session is set
C10_Witness ==
    /\ call["main"].pc = "done"
    /\ last["main"].op = "authenticate"
    /\ last["main"].args.api_key = ""
    /\ last["main"].args.access_token = None
    /\ Len(last["main"].args.endpoint) > 1
    /\ last["main"].exc = "ValueError"
    /\ global_session = 1
    /\ Len(clients) = 1

\* C11: authenticate called with endpoint None and api_key None, and no access
\* token, fails with AttributeError.
C11_NoneEndpointAttributeError ==
    \A t \in Threads :
        (call[t].pc = "done" /\ last[t].op = "authenticate"
         /\ last[t].args.endpoint = NoneUrl
         /\ last[t].args.api_key = None
         /\ last[t].args.access_token = None)
            => last[t].exc = "AttributeError"

\* C12: the auth request carries no Authorization header; every resource
\* request carries as bearer the token returned by the exchange of its own call
\* when the client holds only a key, and the supplied access token otherwise;
\* a resource request has Content-Type: application/json exactly when it has a
\* body, which is when its function passes a request object.
C12_HeaderContract ==
    \A t \in Threads : \A i \in 1..Len(reqs[t]) :
        LET q == reqs[t][i]
            b == built[q.client]
        IN /\ q.kind = "auth" =>
                /\ q.authorization = None
                /\ q.key = b.api_key
           /\ q.kind = "resource" =>
                /\ q.authorization # None
                /\ HoldsOnlyKey(b) =>
                     /\ i > 1
                     /\ reqs[t][i-1].kind = "auth"
                     /\ reqs[t][i-1].token # None
                     /\ q.authorization = reqs[t][i-1].token
                /\ ~HoldsOnlyKey(b) => q.authorization = b.access_token
                /\ q.body = (q.by \in FunctionsWithBody)
                /\ q.content_type = q.body

\* after authenticate(endpoint, api_key="k1", sdk_default=True) a call of
\* list_workspaces() without a session exchanges the key, is handed t1 by the
\* auth endpoint and sends Bearer t1, without a Content-Type
C12_Witness ==
    /\ call["main"].pc = "resource"
    /\ call["main"].op = "list_workspaces"
    /\ call["main"].given = 0
    /\ global_session = 1
    /\ built[call["main"].client].api_key = "k1"
    /\ built[call["main"].client].access_token = None
    /\ Len(reqs["main"]) = 2
    /\ reqs["main"][1].kind = "auth"
    /\ reqs["main"][1].authorization = None
    /\ reqs["main"][1].token = "t1"
    /\ reqs["main"][2].kind = "resource"
    /\ reqs["main"][2].authorization = "t1"
    /\ ~reqs["main"][2].content_type

\* the outcome l ends on a reply that invoke_sdk_operation returned as an
\* envelope: a JSON envelope whose HTTP status is neither 401 nor 403
EnvelopeReturned(l) ==
    l.stage = "resource" /\ l.body = "envelope" /\ l.status \notin {401, 403}

\* C13: create_workspace maps the status code of the envelope it is handed:
\* 409 raises WorkspaceAlreadyExists, 422 raises BadParameters, every other
\* status code than 200 raises UnhandledException, and 200 returns the workspace
\* name found in the response's data.
C13_CreateWorkspaceMapping ==
    \A t \in Threads :
        (call[t].pc = "done" /\ last[t].op = "create_workspace"
         /\ EnvelopeReturned(last[t])) =>
            LET l == last[t] IN
            /\ l.status_code = 409 => l.exc = "WorkspaceAlreadyExists"
            /\ l.status_code = 422 => l.exc = "BadParameters"
            /\ l.status_code \notin {200, 409, 422} => l.exc = "UnhandledException"
            /\ l.status_code = 200 =>
                 (l.exc = NoExc /\ l.value = l.data /\ l.value = ServerWorkspaceName)
            /\ l.exc # NoExc => l.value = None

\* HTTP 409 with statusCode 409 in the body: WorkspaceAlreadyExists
C13_Witness ==
    /\ call["main"].pc = "done"
    /\ last["main"].op = "create_workspace"
    /\ last["main"].status = 409
    /\ last["main"].status_code = 409
    /\ last["main"].exc = "WorkspaceAlreadyExists"

\* the functions that change a GPU request
GprMutations ==
    {"cancel_gpu_request", "update_gpu_request_priority", "update_gpu_request_name",
     "release_gpu"}

\* C14: cancel_gpu_request, update_gpu_request_priority and
\* update_gpu_request_name raise GpuAlreadyProvisioned on every status code other
\* than 200 of the envelope they are handed (401 and 403 answers raise
\* Unauthorized before that), release_gpu raises GpuAlreadyReleased on every such
\* status code, and all four return nothing on 200.  No GPR state is kept: after
\* any earlier calls the outcome is this function of the reply to the call's own
\* resource request.
C14_GprMutationMapping ==
    \A t \in Threads :
        (call[t].pc = "done" /\ last[t].op \in GprMutations
         /\ last[t].stage = "resource") =>
            LET l == last[t]
                typed == IF l.op = "release_gpu" THEN "GpuAlreadyReleased"
                         ELSE "GpuAlreadyProvisioned"
            IN /\ l.value = None
               /\ l.exc = IF l.body = "notjson" THEN "JSONDecodeError"
                          ELSE IF l.status \in {401, 403} THEN "Unauthorized"
                          ELSE IF l.body = "empty" THEN "TypeError"
                          ELSE IF l.status_code = 200 THEN NoExc
                          ELSE typed
               /\ (EnvelopeReturned(l) /\ l.status = l.status_code /\ l.status # 200)
                     => l.exc = typed

\* release_gpu answered 500 after two earlier operations: GpuAlreadyReleased
C14_Witness ==
    /\ call["main"].pc = "done"
    /\ last["main"].op = "release_gpu"
    /\ last["main"].status = 500
    /\ last["main"].status_code = 500
    /\ last["main"].exc = "GpuAlreadyReleased"
    /\ nops = 3

\* C15: on the status code of the envelope they are handed, get_workspace_policy
\* and update_workspace_policy raise on 404 ResourceNotFound with resource_type
\* 'Workspace Policy' and resource_id the requested policy name;
\* update_workspace_policy raises BadParameters on 400 while get_workspace_policy
\* raises UnhandledException on 400; every other status code than 200 raises
\* UnhandledException.
C15_WorkspacePolicyMapping ==
    \A t \in Threads :
        (call[t].pc = "done"
         /\ last[t].op \in {"get_workspace_policy", "update_workspace_policy"}
         /\ EnvelopeReturned(last[t])) =>
            LET l == last[t] IN
            /\ l.status_code = 404 =>
                 /\ l.exc = "ResourceNotFound"
                 /\ l.resource.resource_type = "Workspace Policy"
                 /\ l.resource.resource_id = l.args.policy_name
                 /\ l.args.policy_name # None
            /\ l.status_code = 400 =>
                 l.exc = IF l.op = "update_workspace_policy" THEN "BadParameters"
                         ELSE "UnhandledException"
            /\ l.status_code \notin {200, 400, 404} => l.exc = "UnhandledException"
            /\ l.status_code = 200 => l.exc = NoExc

\* update_workspace_policy(policy_name="p1") answered 404
C15_Witness ==
    /\ call["main"].pc = "done"
    /\ last["main"].op = "update_workspace_policy"
    /\ last["main"].status = 404
    /\ last["main"].status_code = 404
    /\ last["main"].exc = "ResourceNotFound"
    /\ last["main"].resource.resource_id = "p1"

\* the typed exceptions of the resource functions
TypedExceptions ==
    {"WorkspaceAlreadyExists", "BadParameters", "ResourceNotFound",
     "GpuAlreadyProvisioned", "GpuAlreadyReleased"}

\* C16: for every resource function, an envelope with a status code other than
\* 200 makes the function raise one of the typed exceptions or
\* UnhandledException, and no exception of another type.
C16_TypedOrUnhandled ==
    \A t \in Threads :
        (call[t].pc = "done" /\ last[t].op \in ResourceFunctions
         /\ EnvelopeReturned(last[t]) /\ last[t].status_code # 200)
            => last[t].exc \in TypedExceptions \cup {"UnhandledException"}

\* create_api_key called with a role that needs a workspace and without one
ScopedRoleWithoutWorkspace(a) ==
    a.role \in {"Editor", "Viewer"} /\ ~Truthy(a.workspace_name)

\* C17: create_api_key resolves its session first, like every resource function.
\* On the session it has (the one passed or the default one), role Editor or
\* Viewer with an empty or missing workspace_name fails with ValueError before
\* anything is sent; with any other role, or with a workspace name, the call
\* raises no error of its own and goes on to invoke_sdk_operation, which sends
\* its request.  Without a session the call raises Unauthorized and sends
\* nothing.
C17_ValueErrorOnSession ==
    \A t \in Threads :
        (call[t].pc = "done" /\ last[t].op = "create_api_key") =>
            LET l == last[t]
                expected == IF l.given # 0 THEN l.given ELSE global_session
            IN /\ expected = 0 =>
                    (l.exc = "Unauthorized" /\ l.invoked = 0 /\ reqs[t] = <<>>)
               /\ (expected # 0 /\ ScopedRoleWithoutWorkspace(l.args)) =>
                    (l.exc = "ValueError" /\ l.invoked = 0 /\ reqs[t] = <<>>)
               /\ (expected # 0 /\ ~ScopedRoleWithoutWorkspace(l.args)) =>
                    /\ l.invoked = 1
                    /\ l.stage # "none"
                    /\ reqs[t] # <<>>
                    /\ l.stage = "resource" =>
                         reqs[t][Len(reqs[t])].kind = "resource"

\* create_api_key(role="Editor", workspace_name="") on a session
C17_Witness ==
    /\ call["main"].pc = "done"
    /\ last["main"].op = "create_api_key"
    /\ last["main"].args.role = "Editor"
    /\ last["main"].args.workspace_name = ""
    /\ last["main"].session # 0
    /\ last["main"].exc = "ValueError"
    /\ reqs["main"] = <<>>

\* the error map of an API-key function
ErrorMapOf(fn) ==
    IF fn = "create_api_key" THEN CreateApiKeyErrorMap
    ELSE IF fn = "delete_api_key" THEN DeleteApiKeyErrorMap
    ELSE ListApiKeysErrorMap

\* C18: the API-key functions report a rejected request as ValueError:
\* delete_api_key on status code 404, create_api_key on 400, 404, 409, 422, 500
\* and 503, and each of the three functions on every status code of its error
\* map; UnhandledException is raised exactly on a status code that is neither
\* 200 nor in the function's error map.
C18_ApiKeyValueError ==
    \A t \in Threads :
        (call[t].pc = "done" /\ last[t].op \in ApiKeyFunctions
         /\ EnvelopeReturned(last[t])) =>
            LET l == last[t] IN
            /\ (l.op = "delete_api_key" /\ l.status_code = 404) => l.exc = "ValueError"
            /\ (l.op = "create_api_key"
                /\ l.status_code \in {400, 404, 409, 422, 500, 503})
                  => l.exc = "ValueError"
            /\ l.status_code \in ErrorMapOf(l.op) => l.exc = "ValueError"
            /\ l.exc = "UnhandledException"
                 <=> l.status_code \notin ErrorMapOf(l.op) \cup {200}
            /\ l.status_code = 200 => l.exc = NoExc

\* create_api_key rejected by the server with 503
C18_Witness ==
    /\ call["main"].pc = "done"
    /\ last["main"].op = "create_api_key"
    /\ last["main"].status = 503
    /\ last["main"].status_code = 503
    /\ last["main"].exc = "ValueError"

\* the outcome l ends on a reply that indicates failure: an auth reply whose
\* HTTP status is not 200, a resource reply whose HTTP status is 401 or 403 or
\* whose envelope has another status code than 200, or a reply that is not an
\* envelope
FailedReply(l) ==
    \/ l.stage = "auth" /\ (l.status # 200 \/ l.body # "envelope")
    \/ l.stage = "resource"
         /\ (l.status \in {401, 403} \/ l.body # "envelope" \/ l.status_code # 200)

\* a resource function has sent at most one auth request and at most one
\* resource request for each invoke_sdk_operation call it made
SentWithinInvocations(t) ==
    InCall(t) =>
        /\ Cardinality(AuthRequests(t)) <= Op(t).invoked
        /\ Cardinality(ResRequests(t)) <= Op(t).invoked

\* C19: no retries.  A call that waits for a reply sends a further request only
\* when that reply reported success, and then exactly one: the resource request
\* after its exchange, or the first request of the next invoke_sdk_operation
\* call.  A reply that indicates failure ends the call with an exception and
\* without another request.  Each invoke_sdk_operation call sends at most one
\* auth request and at most one resource request.
C19_NoRetries ==
    [][\A t \in Threads :
          /\ call[t].pc \in {"auth", "resource"} =>
               LET n == Len(reqs[t]) IN
               /\ Len(reqs'[t]) > n =>
                    /\ Len(reqs'[t]) = n + 1
                    /\ reqs'[t][n].answer = 200
                    /\ reqs[t][n].kind = "auth" => reqs'[t][n + 1].kind = "resource"
               /\ (call'[t].pc = "done" /\ FailedReply(last'[t])) =>
                    /\ last'[t].exc # NoExc
                    /\ Len(reqs'[t]) = n
          /\ SentWithinInvocations(t)']_vars

\* update_workspace on a key-only client read the workspace, then its second
\* exchange was answered 401: the call ends there, the PUT is never sent
C19_Witness ==
    /\ call["main"].pc = "done"
    /\ last["main"].op = "update_workspace"
    /\ last["main"].stage = "auth"
    /\ last["main"].status = 401
    /\ last["main"].exc = "ApiKeyNotFound"
    /\ last["main"].invoked = 2
    /\ Len(reqs["main"]) = 3
    /\ reqs["main"][3].kind = "auth"
    /\ reqs["main"][3].answer = 401

\* C20: each invoke_sdk_operation call sends its resource request over a
\* connection of its own, and that connection is closed when the call returns or
\* raises; no connection opened by one invoke_sdk_operation call is still open
\* during a later call.
C20_ConnectionClosedAfterCall ==
    \A t \in Threads :
        /\ call[t].pc # "idle" => Len(conns[t].current) = Len(reqs[t])
        /\ (call[t].pc = "done" /\ last[t].op \in ResourceFunctions) =>
              \A i \in 1..Len(reqs[t]) :
                  reqs[t][i].kind = "resource" => ~conns[t].current[i]
        /\ conns[t].earlier = 0

\* C21: a non-empty base URL without '://' is accepted by the client
\* constructor, given a credential, which sets the scheme to 'http' and takes the
\* host from the unparsed string.
C21_MissingSchemeAccepted ==
    \A t \in Threads :
        (call[t].pc = "done" /\ last[t].op \in Constructors
         /\ last[t].args.endpoint \notin {NoneUrl, <<>>}
         /\ IndexOf(last[t].args.endpoint, "://") = 0
         /\ (Truthy(last[t].args.api_key) \/ Truthy(last[t].args.access_token)))
            => /\ last[t].exc = NoExc
               /\ last[t].ret = Len(clients)
               /\ clients[last[t].ret].scheme = <<"http">>
               /\ clients[last[t].ret].server_host = Before(last[t].args.endpoint, "/")

\* the list requests and the PUT requests of the operation of thread t
ListRequests(t) ==
    { i \in ResRequests(t) : reqs[t][i].by = "list_workspaces" }
PutRequests(t) ==
    { i \in ResRequests(t) : reqs[t][i].by = "update_workspace" }

AuthenticatedAsDefault(t) ==
    /\ call[t].pc = "done"
    /\ last[t].op = "authenticate" /\ last[t].exc = NoExc /\ last[t].sdk_default

\* C24: the default-session slot is one unsynchronized cell with
\* last-write-wins semantics.  When callers run authenticate(...,
\* sdk_default=True) concurrently with different credentials, each one's write
\* puts its own session in the slot over whatever another caller wrote before,
\* nothing else changes the slot, and once all of them have returned the slot
\* holds exactly one of their sessions; a resource call without an explicit
\* session takes whatever session the slot holds.
C24_LastWriteWins ==
    [][ /\ \A t \in Threads :
             (call[t].pc = "publish" /\ call'[t].pc = "done")
               => global_session' = call[t].session
        /\ global_session' # global_session
             => \E t \in Threads : call[t].pc = "publish" /\ call'[t].pc = "done"
        /\ (\A t \in Threads : AuthenticatedAsDefault(t))'
             => /\ global_session' \in { last'[t].ret : t \in Threads }
                /\ last'["main"].ret # last'["second"].ret
        /\ \A t \in Threads :
             (call[t].pc = "idle" /\ call'[t].pc \in {"auth", "resource"}
              /\ call'[t].op = "list_workspaces")
               => call'[t].session = global_session
      ]_vars

\* "main" authenticated with its API key after "second" had constructed its
\* session, and wrote the slot first; "second" wrote last, so the
\* list_workspaces call that "main" makes without a session runs on the
\* session of "second", under the access token tA
C24_Witness ==
    /\ call["main"].op = "list_workspaces" /\ call["main"].given = 0
    /\ call["main"].pc = "resource"
    /\ Len(sessions) = 2
    /\ built[sessions[2].client].api_key = "k1"
    /\ built[sessions[1].client].access_token = "tA"
    /\ call["main"].session = 1
    /\ reqs["main"][1].authorization = "tA"
    /\ call["second"].pc = "done" /\ last["second"].ret = 1

\* C25: across any sequence of public operations the default-session slot
\* changes only in the step in which a successful authenticate(...,
\* sdk_default=True) writes the session it returns; authenticate with
\* sdk_default=False, an authenticate call that raises and every resource
\* function, returning or raising, leave it as it was.  The slot is thus unset
\* or the session of the latest such authenticate.
C25_SlotChangesOnlyOnDefaultAuthenticate ==
    [][ /\ global_session' # global_session
             => \E t \in Threads :
                    /\ call[t].op = "authenticate" /\ call[t].sdk_default
                    /\ call'[t].pc = "done"
                    /\ last'[t].op = "authenticate" /\ last'[t].exc = NoExc
                    /\ global_session' = last'[t].ret
        /\ global_session' \in 0..Len(sessions')
      ]_vars

\* with session 1 in the slot, a later authenticate with sdk_default=False has
\* returned session 2 and the slot still holds session 1
C25_Witness ==
    /\ call["main"].pc = "done"
    /\ last["main"].op = "authenticate" /\ last["main"].exc = NoExc
    /\ ~last["main"].sdk_default
    /\ last["main"].ret = 2
    /\ global_session = 1

\* C26: exchange_api_key_for_access_token and invoke_sdk_operation never modify
\* the client.  After any sequence of calls, successful or failing, every
\* client's api_key, access_token, scheme, host, port and prefix are those it
\* was constructed with; a token obtained by exchange is not stored, so the
\* access_token of an API-key client stays unset.
C26_ClientNeverModified ==
    /\ clients = built
    /\ \A c \in 1..Len(clients) :
         HoldsOnlyKey(built[c]) => clients[c].access_token = None

\* a resource function on an API-key client has exchanged the key for t1, sent
\* its request under t1 and returned; the client still has no access token
C26_Witness ==
    /\ call["main"].pc = "done"
    /\ last["main"].op \in ResourceFunctions /\ last["main"].exc = NoExc
    /\ HoldsOnlyKey(built[last["main"].client])
    /\ \E i \in 1..Len(reqs["main"]) :
         /\ reqs["main"][i].kind = "auth" /\ reqs["main"][i].token = "t1"
         /\ reqs["main"][i].client = last["main"].client
    /\ clients[last["main"].client].access_token = None
    /\ clients[last["main"].client].api_key = "k1"

\* the exception the auth endpoint's reply with an envelope stands for
ExchangeError(status, message) ==
    IF status = 400 THEN "ApiKeyInvalid"
    ELSE IF status = 401 /\ message = ExpiredMessage THEN "ApiKeyExpired"
    ELSE IF status = 401 THEN "ApiKeyNotFound"
    ELSE "ServerUnreachable"

\* C27: on a client that holds only an API key, a token exchange that fails
\* inside invoke_sdk_operation ends the resource function: no request follows
\* the failed exchange, so the resource request is never sent, and the caller
\* gets the exchange's own exception, ApiKeyInvalid, ApiKeyExpired,
\* ApiKeyNotFound or ServerUnreachable according to the reply.
C27_ExchangeFailurePropagates ==
    \A t \in Threads :
        InCall(t) =>
            \A i \in 1..Len(reqs[t]) :
                LET q == reqs[t][i]
                IN (q.kind = "auth" /\ q.answer # 0 /\ (q.answer # 200 \/ q.token = None))
                     => /\ HoldsOnlyKey(built[q.client])
                        /\ i = Len(reqs[t])
                        /\ call[t].pc = "done"
                        /\ last[t].stage = "auth" /\ last[t].status = q.answer
                        /\ last[t].exc # NoExc
                        /\ (last[t].body = "envelope" /\ last[t].status # 200)
                             => last[t].exc = ExchangeError(last[t].status,
                                                            last[t].message)

\* a session that authenticate returned after a successful exchange is used
\* for list_workspaces; the exchange of that call is answered 401 with the
\* expiry message and the call raises ApiKeyExpired with no resource request
C27_Witness ==
    /\ call["main"].pc = "done"
    /\ last["main"].op = "list_workspaces"
    /\ last["main"].session # 0
    /\ HoldsOnlyKey(built[sessions[last["main"].session].client])
    /\ last["main"].stage = "auth" /\ last["main"].status = 401
    /\ last["main"].exc = "ApiKeyExpired"
    /\ ResRequests("main") = {}

\* C28: when authenticate is given both an api_key and an access_token, the
\* session's client is built from the access token alone.  authenticate sends
\* no auth request, the client holds the token and no key, and no operation on
\* a client that holds a token and no key ever sends an auth request: its
\* resource requests carry the token it was given.
C28_TokenAloneWhenBothGiven ==
    \A t \in Threads :
        /\ (call[t].pc = "done" /\ last[t].op = "authenticate"
            /\ Truthy(last[t].args.api_key) /\ Truthy(last[t].args.access_token))
             => /\ reqs[t] = <<>>
                /\ last[t].exc = NoExc =>
                     LET c == clients[sessions[last[t].ret].client]
                     IN /\ c.api_key = None
                        /\ c.access_token = last[t].args.access_token
        /\ (InCall(t) /\ Op(t).client # 0 /\ Truthy(clients[Op(t).client].access_token))
             => /\ clients[Op(t).client].api_key = None
                /\ AuthRequests(t) = {}
                /\ \A i \in 1..Len(reqs[t]) :
                     reqs[t][i].authorization = clients[Op(t).client].access_token

\* authenticate was called with the key k1 and the token tA and has returned a
\* session without sending anything; the session's client holds tA and no key
C28_Witness ==
    /\ call["main"].pc = "done"
    /\ last["main"].op = "authenticate" /\ last["main"].exc = NoExc
    /\ last["main"].args.api_key = "k1" /\ last["main"].args.access_token = "tA"
    /\ reqs["main"] = <<>>
    /\ clients[sessions[last["main"].ret].client].api_key = None
    /\ clients[sessions[last["main"].ret].client].access_token = "tA"

\* C29: exchange_api_key_for_access_token and invoke_sdk_operation decode the
\* response body as JSON before they examine the HTTP status.  An operation
\* that ends on a reply whose body is not valid JSON raises the decode error
\* whatever the status is, 400, 401 and 403 included, and not ApiKeyInvalid,
\* ApiKeyNotFound or Unauthorized.
C29_DecodeBeforeStatus ==
    \A t \in Threads :
        (call[t].pc = "done" /\ last[t].stage \in {"auth", "resource"}
         /\ last[t].body = "notjson")
          => /\ last[t].exc = "JSONDecodeError"
             /\ last[t].status_code = 0

\* a resource function's request is answered 403 with a body that is not JSON
\* and the function raises the decode error
C29_Witness ==
    /\ call["main"].pc = "done"
    /\ last["main"].op \in ResourceFunctions
    /\ last["main"].stage = "resource"
    /\ last["main"].status = 403 /\ last["main"].body = "notjson"
    /\ last["main"].exc = "JSONDecodeError"

\* thread t has returned from a successful detach_cluster_from_workspace
Detached(t) ==
    /\ call[t].pc = "done"
    /\ last[t].op = "detach_cluster_from_workspace" /\ last[t].exc = NoExc

\* C30: when two detach_cluster_from_workspace calls for different clusters of
\* one workspace, each a list followed by a PUT against a server that replaces
\* the cluster list on PUT, have both returned successfully, neither of the two
\* clusters is attached to the workspace; and the workspace never has zero
\* clusters.
C30_BothClustersDetached ==
    /\ (Detached("main") /\ Detached("second")
        /\ last["main"].args.cluster_name # last["second"].args.cluster_name)
         => /\ last["main"].args.cluster_name \notin server.clusters
            /\ last["second"].args.cluster_name \notin server.clusters
    /\ server.clusters # {}

====
